---- MODULE Spec2Model ----
(***************************************************************************)
(* State-machine model of the two batch pipelines of the repository:       *)
(*   ocr_pipeline.py : main -> process_pdf -> gemini_generate_with_retry   *)
(*   transcribe.py   : main -> download_youtube_audio -> transcribe_audio  *)
(* Files are modelled by their contents.  A text is a sequence of tokens:  *)
(* a run of whitespace, a run of visible characters, or the header line    *)
(* "=== Page p ===" of page p.                                             *)
(***************************************************************************)
EXTENDS Integers, Sequences, FiniteSets, TLC

VARIABLES
    script,       \* the script the process runs: "ocr_pipeline" or "transcribe"
    input_dir,    \* names of the files in INPUT_DIR once main has fetched them
    pdf_files,    \* main: the sorted list of PDF names
    idx,          \* main: 1-based position in pdf_files
    pc,           \* position of the (single) process in the code
    err,          \* the exception that ended the process, "none" otherwise
    n_pages,      \* process_pdf: len(pages)
    page_num,     \* process_pdf: loop variable of both page loops
    attempt,      \* gemini_generate_with_retry: attempt
    sleeps,       \* the time.sleep(wait) calls of the current retry loop
    response,     \* what gemini_generate_with_retry returned (response.text)
    text,         \* process_pdf: the stripped text being written
    cache,        \* page cache files: <<base_name, page>> -> contents
    final,        \* final output files: base_name -> contents
    calls,        \* pages for which process_pdf called gemini_generate_with_retry
    start,        \* the files of the artifact as process_pdf found them
    fresh,        \* base names whose final output was rebuilt from the current cache
    extDel,       \* a cache file of the artifact was removed during process_pdf
    nCrash,       \* number of times a process was killed
    nDelete,      \* number of cache files removed by an external archiver
    raw_urls,     \* transcribe main: the URLs of the command line
    failed,       \* expand_urls: the URLs whose extract_info raised
    urls,         \* transcribe main: the expanded list of video URLs
    LOG_LEVEL,    \* transcribe: the global log indentation
    transcripts,  \* files of TRANSCRIPTS_DIR: video id -> contents
    archived,     \* video ids of the files under archived_transcripts
    audio         \* video ids that have an mp3 in AUDIO_CACHE_DIR

vars == <<script, input_dir, pdf_files, idx, pc, err, n_pages, page_num,
          attempt, sleeps, response, text, cache, final, calls, start, fresh,
          extDel, nCrash, nDelete, raw_urls, failed, urls, LOG_LEVEL,
          transcripts, archived, audio>>

-----------------------------------------------------------------------------
(* Bounds of the model *)

MaxPages == 2
MaxFail == 1
MaxRetryFail == 14
MaxCrashes == 1
MaxDeletes == 1
MaxUrls == 3

-----------------------------------------------------------------------------
(* Texts *)

HeaderLines == <<"=== Page 1 ===", "=== Page 2 ===", "=== Page 3 ===",
                 "=== Page 4 ===">>

\* f"=== Page {page_num} ==="
Header(p) == <<HeaderLines[p]>>

IsSpace(t) == t \in {" ", "\n", "\n\n"}

RECURSIVE lstrip(_)
lstrip(s) ==
    IF s = <<>> THEN s
    ELSE IF IsSpace(Head(s)) THEN lstrip(Tail(s)) ELSE s

RECURSIVE rstrip(_)
rstrip(s) ==
    IF s = <<>> THEN s
    ELSE IF IsSpace(s[Len(s)]) THEN rstrip(SubSeq(s, 1, Len(s) - 1)) ELSE s

strip(s) == rstrip(lstrip(s))

startswith(s, h) == Len(s) >= Len(h) /\ SubSeq(s, 1, Len(h)) = h

Prefixes(s) == {SubSeq(s, 1, k) : k \in 0..Len(s)}

RECURSIVE Count(_, _)
Count(s, t) ==
    IF s = <<>> THEN 0
    ELSE (IF Head(s) = t THEN 1 ELSE 0) + Count(Tail(s), t)

\* What the recognition service may answer for page p (response.text; None
\* and "" are both the empty text).
Responses(p) ==
    { <<>>,
      <<" ", "\n">>,
      <<" ", "x", "\n">>,
      Header(p) \o <<"\n", "x">>,
      Header(p) \o <<"\n">> \o Header(p) \o <<"x">> }

-----------------------------------------------------------------------------
(* File names *)

PdfA == [stem |-> "a", ext |-> ".pdf"]
PdfB == [stem |-> "b", ext |-> ".pdf"]

PdfAUpper == [stem |-> "a", ext |-> ".PDF"]

\* str.lower() on the extension
lower(e) == IF e = ".PDF" THEN ".pdf" ELSE e

\* f.lower().endswith(".pdf")
IsPdf(f) == lower(f.ext) = ".pdf"

\* os.path.splitext(os.path.basename(pdf_path))[0]
base_name(f) == f.stem

\* code point order of the characters that occur in the names
CharRank(c) ==
    CASE c = "a" -> 1 [] c = "b" -> 2 [] c = ".PDF" -> 1 [] c = ".pdf" -> 2

Less(f, g) ==
    \/ CharRank(f.stem) < CharRank(g.stem)
    \/ f.stem = g.stem /\ CharRank(f.ext) < CharRank(g.ext)

RECURSIVE sorted(_)
sorted(S) ==
    IF S = {} THEN <<>>
    ELSE LET m == CHOOSE x \in S : \A y \in S \ {x} : Less(x, y)
         IN  <<m>> \o sorted(S \ {m})

\* len(convert_from_path(pdf_path, dpi=DPI))
NumPages(f) == IF f.stem = "a" THEN MaxPages ELSE 1

-----------------------------------------------------------------------------
(* Files *)

exists(files, k) == k \in DOMAIN files

\* open(path, "w") followed by write(s): the file holds exactly s
Put(files, k, s) ==
    [j \in DOMAIN files \cup {k} |-> IF j = k THEN s ELSE files[j]]

Remove(files, k) == [j \in DOMAIN files \ {k} |-> files[j]]

NoFiles == [j \in {} |-> <<>>]

\* variant of write: the text goes in front of what the file holds
write_front(f, s) == s \o f

\* out.write(s) on a file that is open for writing
write(f, s) == f \o s

pdf == pdf_files[idx]
base == base_name(pdf)

\* os.path.join(pdf_cache_dir, f"page_{page_num:03d}.txt")
page_file(b, p) == <<b, p>>

Snapshot(b, n) ==
    [ cached |-> {p \in 1..n : exists(cache, page_file(b, p))},
      hasFinal |-> exists(final, b),
      final |-> IF b \in fresh THEN final[b] ELSE <<>>,
      fresh |-> b \in fresh ]

NoSnapshot == [cached |-> {}, hasFinal |-> FALSE, final |-> <<>>, fresh |-> FALSE]

-----------------------------------------------------------------------------
(* ocr_pipeline.py *)

Stopped == {"idle", "main_done", "raised", "crashed"}

InProcessPdf == pc \in {"convert", "page_loop", "gemini", "response",
                        "cache_write", "rebuild", "pdf_done"}

TrVars == <<raw_urls, failed, urls, LOG_LEVEL, transcripts, archived, audio>>

\* a step of ocr_pipeline.py: nothing of transcribe.py is touched
OcrFrame ==
    /\ script = "ocr_pipeline"
    /\ UNCHANGED <<script, TrVars>>

OcrLocals == <<n_pages, page_num, attempt, sleeps, response, text>>
OcrFiles == <<cache, final, fresh>>
Budget == <<nCrash, nDelete>>

ResetLocals ==
    /\ n_pages' = 0
    /\ page_num' = 0
    /\ attempt' = 0
    /\ sleeps' = <<>>
    /\ response' = <<>>
    /\ text' = <<>>
    /\ calls' = <<>>
    /\ start' = NoSnapshot
    /\ extDel' = FALSE

\* main: download_pdfs_from_github() returned; list and sort the PDFs
OcrMain ==
    /\ OcrFrame
    /\ pc \in Stopped
    /\ pdf_files' = sorted({f \in input_dir : IsPdf(f)})
    /\ idx' = 1
    /\ pc' = "main_loop"
    /\ err' = "none"
    /\ ResetLocals
    /\ UNCHANGED <<input_dir, OcrFiles, Budget>>

\* main: download_pdfs_from_github() raises (r.raise_for_status())
OcrMainDownloadFails ==
    /\ OcrFrame
    /\ pc \in Stopped
    /\ pdf_files' = <<>>
    /\ idx' = 1
    /\ pc' = "raised"
    /\ err' = "Download"
    /\ ResetLocals
    /\ UNCHANGED <<input_dir, OcrFiles, Budget>>

\* main: the next PDF of the list; process_pdf up to convert_from_path
\* (directories are not modelled: os.makedirs only makes pdf_cache_dir exist)
EnterProcessPdf ==
    /\ OcrFrame
    /\ pc = "main_loop"
    /\ idx <= Len(pdf_files)
    /\ pc' = "convert"
    /\ calls' = <<>>
    /\ start' = Snapshot(base, NumPages(pdf))
    /\ extDel' = FALSE
    /\ UNCHANGED <<input_dir, pdf_files, idx, err, OcrLocals, OcrFiles, Budget>>

\* main: the list is exhausted, the process ends
MainDone ==
    /\ OcrFrame
    /\ pc = "main_loop"
    /\ idx > Len(pdf_files)
    /\ pc' = "main_done"
    /\ ResetLocals
    /\ UNCHANGED <<input_dir, pdf_files, idx, err, OcrFiles, Budget>>

\* An exception nobody catches ends the process: neither process_pdf nor
\* main has a try block.
Raise(e) ==
    /\ pc' = "raised"
    /\ err' = e

ConvertOk ==
    /\ OcrFrame
    /\ pc = "convert"
    /\ n_pages' = NumPages(pdf)
    /\ page_num' = 1
    /\ pc' = "page_loop"
    /\ UNCHANGED <<input_dir, pdf_files, idx, err, attempt, sleeps, response,
                   text, OcrFiles, calls, start, extDel, Budget>>

\* convert_from_path raises on a PDF it cannot decode
ConvertRaises ==
    /\ OcrFrame
    /\ pc = "convert"
    /\ Raise("Decode")
    /\ UNCHANGED <<input_dir, pdf_files, idx, OcrLocals, OcrFiles, calls,
                   start, extDel, Budget>>

\* variant of IsCached: the file of the next page is looked up
IsCachedOffByOne(b, p) == exists(cache, page_file(b, p + 1))

\* variant of IsCached: no file is ever found
IsCachedNever(b, p) == FALSE

\* os.path.exists(page_file)
IsCached(b, p) == exists(cache, page_file(b, p))

PageCached ==
    /\ OcrFrame
    /\ pc = "page_loop"
    /\ page_num <= n_pages
    /\ IsCached(base, page_num)
    /\ page_num' = page_num + 1
    /\ UNCHANGED <<input_dir, pdf_files, idx, pc, err, n_pages, attempt, sleeps,
                   response, text, OcrFiles, calls, start, extDel, Budget>>

\* cache miss: call gemini_generate_with_retry(prompt, page, page_num)
PageMiss ==
    /\ OcrFrame
    /\ pc = "page_loop"
    /\ page_num <= n_pages
    /\ ~IsCached(base, page_num)
    /\ pc' = "gemini"
    /\ attempt' = 1
    /\ sleeps' = <<>>
    /\ calls' = Append(calls, page_num)
    /\ UNCHANGED <<input_dir, pdf_files, idx, err, n_pages, page_num, response,
                   text, OcrFiles, start, extDel, Budget>>

\* variant of wait: no cap at 60
wait_uncapped(a) == 5 * a

\* wait = min(60, 5 * attempt)
wait(a) == IF 5 * a < 60 THEN 5 * a ELSE 60

\* variant of GeminiRaises: the exception leaves the function
GeminiRaisesPropagates(bound) ==
    /\ OcrFrame
    /\ pc = "gemini"
    /\ Len(sleeps) < bound
    /\ Raise("Recognition")
    /\ UNCHANGED <<input_dir, pdf_files, idx, OcrLocals, OcrFiles, calls,
                   start, extDel, Budget>>

\* model.generate_content raises: sleep and try again
GeminiRaises(bound) ==
    /\ OcrFrame
    /\ pc = "gemini"
    /\ Len(sleeps) < bound
    /\ sleeps' = Append(sleeps, wait(attempt))
    /\ attempt' = attempt + 1
    /\ UNCHANGED <<input_dir, pdf_files, idx, pc, err, n_pages, page_num,
                   response, text, OcrFiles, calls, start, extDel, Budget>>

\* model.generate_content returns
GeminiReturns ==
    /\ OcrFrame
    /\ pc = "gemini"
    /\ \E r \in Responses(page_num) : response' = r
    /\ pc' = "response"
    /\ UNCHANGED <<input_dir, pdf_files, idx, err, n_pages, page_num, attempt,
                   sleeps, text, OcrFiles, calls, start, extDel, Budget>>

\* variant of IsEmptyText: the check is missing
IsEmptyTextNever(t) == FALSE

\* if not text
IsEmptyText(t) == t = <<>>

\* variant of EmptyOcrRaises: the page file is opened before the check
EmptyOcrRaisesAfterOpen ==
    /\ OcrFrame
    /\ pc = "response"
    /\ IsEmptyText(strip(response))
    /\ Raise("EmptyOCR")
    /\ attempt' = 0
    /\ sleeps' = <<>>
    /\ cache' = Put(cache, page_file(base, page_num), <<>>)
    /\ UNCHANGED <<input_dir, pdf_files, idx, n_pages, page_num, response, text,
                   final, fresh, calls, start, extDel, Budget>>

\* text = (response.text or "").strip(); raise RuntimeError when it is empty
EmptyOcrRaises ==
    /\ OcrFrame
    /\ pc = "response"
    /\ IsEmptyText(strip(response))
    /\ Raise("EmptyOCR")
    /\ attempt' = 0
    /\ sleeps' = <<>>
    /\ UNCHANGED <<input_dir, pdf_files, idx, n_pages, page_num, response, text,
                   OcrFiles, calls, start, extDel, Budget>>

\* open(page_file, "w"): the file exists and is empty
CacheOpen ==
    /\ OcrFrame
    /\ pc = "response"
    /\ ~IsEmptyText(strip(response))
    /\ text' = strip(response)
    /\ cache' = Put(cache, page_file(base, page_num), <<>>)
    /\ fresh' = fresh \ {base}
    /\ pc' = "cache_write"
    /\ response' = <<>>
    /\ attempt' = 0
    /\ sleeps' = <<>>
    /\ UNCHANGED <<input_dir, pdf_files, idx, err, n_pages, page_num, final,
                   calls, start, extDel, Budget>>

\* variant of CacheWrite: the loop goes on two pages further
CacheWriteSkipsPage ==
    /\ OcrFrame
    /\ pc = "cache_write"
    /\ cache' = Put(cache, page_file(base, page_num), text)
    /\ page_num' = page_num + 2
    /\ pc' = "page_loop"
    /\ text' = <<>>
    /\ UNCHANGED <<input_dir, pdf_files, idx, err, n_pages, attempt, sleeps,
                   response, final, fresh, calls, start, extDel, Budget>>

\* f.write(text) and the close of the with block
CacheWrite ==
    /\ OcrFrame
    /\ pc = "cache_write"
    /\ cache' = Put(cache, page_file(base, page_num), text)
    /\ page_num' = page_num + 1
    /\ pc' = "page_loop"
    /\ text' = <<>>
    /\ UNCHANGED <<input_dir, pdf_files, idx, err, n_pages, attempt, sleeps,
                   response, final, fresh, calls, start, extDel, Budget>>

\* variant of RebuildOpen: no rebuild when no page was recognised
RebuildOpenOnlyAfterOcr ==
    /\ OcrFrame
    /\ pc = "page_loop"
    /\ page_num > n_pages
    /\ IF calls = <<>>
       THEN /\ pc' = "pdf_done"
            /\ UNCHANGED <<final, fresh, page_num>>
       ELSE /\ final' = Put(final, base, <<>>)
            /\ fresh' = fresh \ {base}
            /\ page_num' = 1
            /\ pc' = "rebuild"
    /\ UNCHANGED <<input_dir, pdf_files, idx, err, n_pages, attempt, sleeps,
                   response, text, cache, calls, start, extDel, Budget>>

\* the page loop is over: open(final_output_path, "w") truncates the file
RebuildOpen ==
    /\ OcrFrame
    /\ pc = "page_loop"
    /\ page_num > n_pages
    /\ final' = Put(final, base, <<>>)
    /\ fresh' = fresh \ {base}
    /\ page_num' = 1
    /\ pc' = "rebuild"
    /\ UNCHANGED <<input_dir, pdf_files, idx, err, n_pages, attempt, sleeps,
                   response, text, cache, calls, start, extDel, Budget>>

\* variant of page_body: the header is left in place
page_body_keeps_header(t, p) == rstrip(lstrip(t))

\* page_text after lstrip, removal of the header and rstrip
page_body(t, p) ==
    LET page_text == lstrip(t)
        header == Header(p)
    IN  rstrip(IF startswith(page_text, header)
               THEN lstrip(SubSeq(page_text, Len(header) + 1, Len(page_text)))
               ELSE page_text)

\* what one round of the rebuild loop appends
page_section(t, p) == Header(p) \o <<"\n">> \o page_body(t, p) \o <<"\n\n">>

RebuildPage ==
    /\ OcrFrame
    /\ pc = "rebuild"
    /\ page_num <= n_pages
    /\ exists(cache, page_file(base, page_num))
    /\ final' = Put(final, base,
                    write(final[base],
                          page_section(cache[page_file(base, page_num)],
                                       page_num)))
    /\ page_num' = page_num + 1
    /\ UNCHANGED <<input_dir, pdf_files, idx, pc, err, n_pages, attempt, sleeps,
                   response, text, cache, fresh, calls, start, extDel, Budget>>

\* open(page_file, "r") raises FileNotFoundError after the header was written;
\* leaving the with block closes the final output as it is
RebuildMissing ==
    /\ OcrFrame
    /\ pc = "rebuild"
    /\ page_num <= n_pages
    /\ ~exists(cache, page_file(base, page_num))
    /\ final' = Put(final, base,
                    write(final[base], Header(page_num) \o <<"\n">>))
    /\ Raise("FileNotFound")
    /\ UNCHANGED <<input_dir, pdf_files, idx, OcrLocals, cache, fresh, calls,
                   start, extDel, Budget>>

RebuildClose ==
    /\ OcrFrame
    /\ pc = "rebuild"
    /\ page_num > n_pages
    /\ fresh' = fresh \cup {base}
    /\ pc' = "pdf_done"
    /\ UNCHANGED <<input_dir, pdf_files, idx, err, OcrLocals, cache, final,
                   calls, start, extDel, Budget>>

\* process_pdf returns to the loop of main
ProcessPdfReturns ==
    /\ OcrFrame
    /\ pc = "pdf_done"
    /\ idx' = idx + 1
    /\ pc' = "main_loop"
    /\ UNCHANGED <<input_dir, pdf_files, err, OcrLocals, OcrFiles, calls, start,
                   extDel, Budget>>

-----------------------------------------------------------------------------
(* transcribe.py *)

\* sys.argv[1:] of the runs of main, which parse_urls returns as it is
ARGV == <<"watch?v=A", "youtu.be/A", "watch?v=A&list=P">>

\* the URLs a command line may hold
RawUrls == {"watch?v=A", "watch?v=B", "youtu.be/A", "watch?v=A&list=P",
            "playlist?list=P"}

\* "list=" in url
has_list(u) == u \in {"watch?v=A&list=P", "playlist?list=P"}

\* the playlist URL made of the list id of the URL
normalize(u) == IF has_list(u) THEN "playlist?list=P" ELSE u

\* ydl.extract_info(url, download=False); an entry "" is one without an id
extract_info(u) ==
    IF u = "playlist?list=P"
    THEN [type |-> "playlist", id |-> "P", entries |-> <<"A", "", "B">>]
    ELSE [type |-> "video", id |-> IF u = "watch?v=B" THEN "B" ELSE "A",
          entries |-> <<>>]

\* f"https://www.youtube.com/watch?v={entry['id']}"
watch_url(id) == IF id = "A" THEN "watch?v=A" ELSE "watch?v=B"

RECURSIVE entry_urls(_)
entry_urls(es) ==
    IF es = <<>> THEN <<>>
    ELSE (IF Head(es) # "" THEN <<watch_url(Head(es))>> ELSE <<>>)
         \o entry_urls(Tail(es))

\* the first loop of expand_urls; bad holds the URLs whose extraction raises
RECURSIVE expanded(_, _)
expanded(us, bad) ==
    IF us = <<>> THEN <<>>
    ELSE LET url == normalize(Head(us))
             info == extract_info(url)
         IN  (IF url \in bad THEN <<>>
              ELSE IF info.type = "playlist" THEN entry_urls(info.entries)
              ELSE <<url>>)
             \o expanded(Tail(us), bad)

Range(q) == {q[i] : i \in DOMAIN q}

\* variant of dedup: the last occurrence is the one that stays
RECURSIVE dedup_last(_)
dedup_last(q) ==
    IF q = <<>> THEN <<>>
    ELSE LET result == dedup_last(Tail(q))
             u == Head(q)
         IN  IF u \in Range(result) THEN result ELSE <<u>> \o result

\* "Deduplicate while preserving order"
RECURSIVE dedup(_)
dedup(q) ==
    IF q = <<>> THEN <<>>
    ELSE LET result == dedup(SubSeq(q, 1, Len(q) - 1))
             u == q[Len(q)]
         IN  IF u \in Range(result) THEN result ELSE Append(result, u)

expand_urls(us, bad) == dedup(expanded(us, bad))

\* what Gemini may answer for an audio file (response.text)
AudioResponses == { <<>>, <<"\n">>, <<" ", "y", "\n">> }

url == urls[idx]

\* info["id"], which names the mp3 and, with the title, the transcript
video_id == extract_info(url).id

\* the header main writes before the text
transcript_header(u) == <<"header", u, "\n">>

\* log_parent and log_done on LOG_LEVEL
log_parent(l) == l + 1
log_done(l) == IF l - 1 > 0 THEN l - 1 ELSE 0

\* variant of in_range: one attempt more
in_range_4(a) == a \in 1..4

\* for attempt in range(1, 4): the loop has a round for attempt
in_range(a) == a \in 1..3

TrFrame ==
    /\ script = "transcribe"
    /\ UNCHANGED <<script, input_dir, pdf_files, n_pages, page_num, cache,
                   final, start, fresh, extDel, Budget, raw_urls>>

\* a new process: module initialisation, archive_old_transcripts, parse_urls
\* and expand_urls
TrMain ==
    /\ TrFrame
    /\ pc \in Stopped
    /\ archived' = archived \cup DOMAIN transcripts
    /\ transcripts' = NoFiles
    /\ \E bad \in SUBSET {normalize(raw_urls[i]) : i \in DOMAIN raw_urls} :
        /\ urls' = expand_urls(raw_urls, bad)
        /\ failed' = bad
    /\ LOG_LEVEL' = 0
    /\ idx' = 1
    /\ pc' = "t_loop"
    /\ err' = "none"
    /\ attempt' = 0
    /\ sleeps' = <<>>
    /\ response' = <<>>
    /\ text' = <<>>
    /\ calls' = <<>>
    /\ UNCHANGED audio

\* the next URL: log_parent, then the download loop
TrEnter ==
    /\ TrFrame
    /\ pc = "t_loop"
    /\ idx <= Len(urls)
    /\ LOG_LEVEL' = log_parent(LOG_LEVEL)
    /\ attempt' = 1
    /\ sleeps' = <<>>
    /\ err' = "none"
    /\ pc' = "t_download"
    /\ UNCHANGED <<failed, urls, idx, response, text, calls, transcripts,
                   archived, audio>>

TrMainDone ==
    /\ TrFrame
    /\ pc = "t_loop"
    /\ idx > Len(urls)
    /\ pc' = "main_done"
    /\ UNCHANGED <<failed, urls, idx, err, attempt, sleeps, response, text, calls,
                   LOG_LEVEL, transcripts, archived, audio>>

\* download_youtube_audio: get_video_info raises after its log_parent
TrInfoRaises ==
    /\ TrFrame
    /\ pc = "t_download"
    /\ in_range(attempt)
    /\ LOG_LEVEL' = log_parent(LOG_LEVEL)
    /\ sleeps' = Append(sleeps, 5)
    /\ attempt' = attempt + 1
    /\ UNCHANGED <<failed, urls, idx, pc, err, response, text, calls, transcripts,
                   archived, audio>>

\* download_youtube_audio: the mp3 is in the audio cache
TrAudioCached ==
    /\ TrFrame
    /\ pc = "t_download"
    /\ in_range(attempt)
    /\ video_id \in audio
    /\ pc' = "t_got"
    /\ UNCHANGED <<failed, urls, idx, err, attempt, sleeps, response, text, calls,
                   LOG_LEVEL, transcripts, archived, audio>>

\* download_youtube_audio: ydl.download raises, or leaves no mp3
TrDownloadRaises ==
    /\ TrFrame
    /\ pc = "t_download"
    /\ in_range(attempt)
    /\ video_id \notin audio
    /\ LOG_LEVEL' = log_parent(LOG_LEVEL)
    /\ sleeps' = Append(sleeps, 5)
    /\ attempt' = attempt + 1
    /\ UNCHANGED <<failed, urls, idx, pc, err, response, text, calls, transcripts,
                   archived, audio>>

TrDownloadOk ==
    /\ TrFrame
    /\ pc = "t_download"
    /\ in_range(attempt)
    /\ video_id \notin audio
    /\ audio' = audio \cup {video_id}
    /\ pc' = "t_got"
    /\ UNCHANGED <<failed, urls, idx, err, attempt, sleeps, response, text, calls,
                   LOG_LEVEL, transcripts, archived>>

\* the else branch of the download loop
TrSkipAfterRetries ==
    /\ TrFrame
    /\ pc = "t_download"
    /\ ~in_range(attempt)
    /\ LOG_LEVEL' = log_done(LOG_LEVEL)
    /\ idx' = idx + 1
    /\ pc' = "t_loop"
    /\ UNCHANGED <<failed, urls, err, attempt, sleeps, response, text, calls,
                   transcripts, archived, audio>>

\* os.path.exists(out)
TrOutputExists ==
    /\ TrFrame
    /\ pc = "t_got"
    /\ exists(transcripts, video_id)
    /\ LOG_LEVEL' = log_done(LOG_LEVEL)
    /\ idx' = idx + 1
    /\ pc' = "t_loop"
    /\ UNCHANGED <<failed, urls, err, attempt, sleeps, response, text, calls,
                   transcripts, archived, audio>>

\* transcribe_audio: the upload or generate_content raises after log_parent
TrTranscribeRaises ==
    /\ TrFrame
    /\ pc = "t_got"
    /\ ~exists(transcripts, video_id)
    /\ calls' = Append(calls, video_id)
    /\ LOG_LEVEL' = log_parent(LOG_LEVEL)
    /\ err' = "Transcribe"
    /\ pc' = "t_except"
    /\ UNCHANGED <<failed, urls, idx, attempt, sleeps, response, text, transcripts,
                   archived, audio>>

TrTranscribeReturns ==
    /\ TrFrame
    /\ pc = "t_got"
    /\ ~exists(transcripts, video_id)
    /\ calls' = Append(calls, video_id)
    /\ \E r \in AudioResponses : response' = r
    /\ pc' = "t_response"
    /\ UNCHANGED <<failed, urls, idx, err, attempt, sleeps, text, LOG_LEVEL, transcripts,
                   archived, audio>>

\* transcribe_audio: if not text
IsEmptyTranscription(t) == t = <<>>

TrEmptyRaises ==
    /\ TrFrame
    /\ pc = "t_response"
    /\ IsEmptyTranscription(strip(response))
    /\ err' = "EmptyTranscription"
    /\ pc' = "t_except"
    /\ UNCHANGED <<failed, urls, idx, attempt, sleeps, response, text, calls, LOG_LEVEL,
                   transcripts, archived, audio>>

\* log_parent("Writing output") and open(out, "w")
TrWriteOpen ==
    /\ TrFrame
    /\ pc = "t_response"
    /\ ~IsEmptyTranscription(strip(response))
    /\ text' = strip(response)
    /\ response' = <<>>
    /\ LOG_LEVEL' = log_parent(LOG_LEVEL)
    /\ transcripts' = Put(transcripts, video_id, <<>>)
    /\ pc' = "t_writing"
    /\ UNCHANGED <<failed, urls, idx, err, attempt, sleeps, calls, archived, audio>>

\* f.write(header), f.write(text), the close, both log_done
TrWriteClose ==
    /\ TrFrame
    /\ pc = "t_writing"
    /\ transcripts' = Put(transcripts, video_id,
                          write(write(<<>>, transcript_header(url)), text))
    /\ text' = <<>>
    /\ LOG_LEVEL' = log_done(log_done(LOG_LEVEL))
    /\ idx' = idx + 1
    /\ pc' = "t_loop"
    /\ UNCHANGED <<failed, urls, err, attempt, sleeps, response, calls,
                   archived, audio>>

\* log_parent("Writing output"), then open(out, "w") raises (the name is
\* too long, the directory is gone): no file is made
TrOpenRaises ==
    /\ TrFrame
    /\ pc = "t_response"
    /\ ~IsEmptyTranscription(strip(response))
    /\ response' = <<>>
    /\ LOG_LEVEL' = log_parent(LOG_LEVEL)
    /\ err' = "Write"
    /\ pc' = "t_except"
    /\ UNCHANGED <<failed, urls, idx, attempt, sleeps, text, calls, transcripts,
                   archived, audio>>

\* f.write(header) or f.write(text) raises (the disk is full, the text
\* cannot be encoded): leaving the with block closes the file with what was
\* written before
TrWriteRaises ==
    /\ TrFrame
    /\ pc = "t_writing"
    /\ \E s \in Prefixes(transcript_header(url) \o text) :
        /\ s # transcript_header(url) \o text
        /\ transcripts' = Put(transcripts, video_id, s)
    /\ text' = <<>>
    /\ err' = "Write"
    /\ pc' = "t_except"
    /\ UNCHANGED <<failed, urls, idx, attempt, sleeps, response, calls, LOG_LEVEL,
                   archived, audio>>

\* except Exception: log_child, then the log_done that ends the iteration
TrExcept ==
    /\ TrFrame
    /\ pc = "t_except"
    /\ response' = <<>>
    /\ LOG_LEVEL' = log_done(LOG_LEVEL)
    /\ idx' = idx + 1
    /\ pc' = "t_loop"
    /\ UNCHANGED <<failed, urls, err, attempt, sleeps, text, calls, transcripts,
                   archived, audio>>

-----------------------------------------------------------------------------
(* The environment *)

\* The process is killed.  A file that is open for writing keeps a prefix
\* of what was written to it (the rest was still buffered); what the process
\* held in memory is gone.
Crash ==
    /\ pc \notin Stopped
    /\ nCrash < MaxCrashes
    /\ nCrash' = nCrash + 1
    /\ pc' = "crashed"
    /\ ResetLocals
    /\ pdf_files' = <<>>
    /\ idx' = 1
    /\ failed' = {}
    /\ urls' = <<>>
    /\ LOG_LEVEL' = 0
    /\ IF pc = "cache_write"
       THEN \E s \in Prefixes(text) :
                cache' = Put(cache, page_file(base, page_num), s)
       ELSE cache' = cache
    /\ IF pc = "rebuild"
       THEN \E s \in Prefixes(final[base]) : final' = Put(final, base, s)
       ELSE final' = final
    /\ IF pc = "t_writing"
       THEN \E s \in Prefixes(transcript_header(url) \o text) :
                transcripts' = Put(transcripts, video_id, s)
       ELSE transcripts' = transcripts
    /\ UNCHANGED <<script, input_dir, err, fresh, nDelete, raw_urls, archived,
                   audio>>

\* A page cache file is removed by an external archiver.
ExternalDelete ==
    /\ nDelete < MaxDeletes
    /\ nDelete' = nDelete + 1
    /\ \E k \in DOMAIN cache :
        /\ ~(pc = "cache_write" /\ k = page_file(base, page_num))
        /\ cache' = Remove(cache, k)
        /\ fresh' = fresh \ {k[1]}
        /\ extDel' = (extDel \/ (InProcessPdf /\ k[1] = base))
    /\ UNCHANGED <<script, input_dir, pdf_files, idx, pc, err, OcrLocals, final,
                   calls, start, nCrash, TrVars>>

-----------------------------------------------------------------------------
(* Specifications *)

Init ==
    /\ script = "ocr_pipeline"
    /\ input_dir = {PdfA, [stem |-> "a", ext |-> ".txt"]}
    /\ pdf_files = <<>>
    /\ idx = 1
    /\ pc = "idle"
    /\ err = "none"
    /\ n_pages = 0
    /\ page_num = 0
    /\ attempt = 0
    /\ sleeps = <<>>
    /\ response = <<>>
    /\ text = <<>>
    /\ cache = NoFiles
    /\ final = NoFiles
    /\ calls = <<>>
    /\ start = NoSnapshot
    /\ fresh = {}
    /\ extDel = FALSE
    /\ nCrash = 0
    /\ nDelete = 0
    /\ raw_urls = ARGV
    /\ failed = {}
    /\ urls = <<>>
    /\ LOG_LEVEL = 0
    /\ transcripts = NoFiles
    /\ archived = {}
    /\ audio = {}

OcrNext ==
    \/ OcrMain
    \/ OcrMainDownloadFails
    \/ EnterProcessPdf
    \/ MainDone
    \/ ConvertOk
    \/ ConvertRaises
    \/ PageCached
    \/ PageMiss
    \/ GeminiRaises(MaxFail)
    \/ GeminiReturns
    \/ EmptyOcrRaises
    \/ CacheOpen
    \/ CacheWrite
    \/ RebuildOpen
    \/ RebuildPage
    \/ RebuildMissing
    \/ RebuildClose
    \/ ProcessPdfReturns

TrNext ==
    \/ TrMain
    \/ TrEnter
    \/ TrMainDone
    \/ TrInfoRaises
    \/ TrAudioCached
    \/ TrDownloadRaises
    \/ TrDownloadOk
    \/ TrSkipAfterRetries
    \/ TrOutputExists
    \/ TrTranscribeRaises
    \/ TrTranscribeReturns
    \/ TrEmptyRaises
    \/ TrWriteOpen
    \/ TrWriteClose
    \/ TrExcept

Next == OcrNext \/ Crash \/ ExternalDelete

Spec == Init /\ [][Next]_vars

\* either script, started any number of times, no process being killed
InitRun ==
    /\ script \in {"ocr_pipeline", "transcribe"}
    /\ input_dir = {PdfA, [stem |-> "a", ext |-> ".txt"]}
    /\ pdf_files = <<>>
    /\ idx = 1
    /\ pc = "idle"
    /\ err = "none"
    /\ n_pages = 0
    /\ page_num = 0
    /\ attempt = 0
    /\ sleeps = <<>>
    /\ response = <<>>
    /\ text = <<>>
    /\ cache = NoFiles
    /\ final = NoFiles
    /\ calls = <<>>
    /\ start = NoSnapshot
    /\ fresh = {}
    /\ extDel = FALSE
    /\ nCrash = 0
    /\ nDelete = 0
    /\ raw_urls = ARGV
    /\ failed = {}
    /\ urls = <<>>
    /\ LOG_LEVEL = 0
    /\ transcripts = NoFiles
    /\ archived = {}
    /\ audio = {}

NextRun == OcrNext \/ TrNext \/ ExternalDelete

SpecRun == InitRun /\ [][NextRun]_vars

\* gemini_generate_with_retry on its own: the call of process_pdf for page p
\* of a.pdf, the pages before p being cached
InitRetry ==
    /\ script = "ocr_pipeline"
    /\ input_dir = {PdfA}
    /\ pdf_files = <<PdfA>>
    /\ idx = 1
    /\ pc = "gemini"
    /\ err = "none"
    /\ n_pages = MaxPages
    /\ \E p \in 1..MaxPages :
        /\ page_num = p
        /\ cache = [k \in {page_file("a", q) : q \in 1..(p - 1)} |-> <<"x">>]
        /\ calls = <<p>>
        /\ start = [cached |-> 1..(p - 1), hasFinal |-> FALSE, final |-> <<>>,
                    fresh |-> FALSE]
    /\ attempt = 1
    /\ sleeps = <<>>
    /\ response = <<>>
    /\ text = <<>>
    /\ final = NoFiles
    /\ fresh = {}
    /\ extDel = FALSE
    /\ nCrash = 0
    /\ nDelete = 0
    /\ raw_urls = ARGV
    /\ failed = {}
    /\ urls = <<>>
    /\ LOG_LEVEL = 0
    /\ transcripts = NoFiles
    /\ archived = {}
    /\ audio = {}

NextRetry == GeminiRaises(MaxRetryFail) \/ GeminiReturns

SpecRetry == InitRetry /\ [][NextRetry]_vars

\* main over a directory of two PDFs, no process being killed
InitBatch ==
    /\ script = "ocr_pipeline"
    /\ input_dir = {PdfA, PdfB, [stem |-> "a", ext |-> ".txt"]}
    /\ pdf_files = <<>>
    /\ idx = 1
    /\ pc = "idle"
    /\ err = "none"
    /\ n_pages = 0
    /\ page_num = 0
    /\ attempt = 0
    /\ sleeps = <<>>
    /\ response = <<>>
    /\ text = <<>>
    /\ cache = NoFiles
    /\ final = NoFiles
    /\ calls = <<>>
    /\ start = NoSnapshot
    /\ fresh = {}
    /\ extDel = FALSE
    /\ nCrash = 0
    /\ nDelete = 0
    /\ raw_urls = ARGV
    /\ failed = {}
    /\ urls = <<>>
    /\ LOG_LEVEL = 0
    /\ transcripts = NoFiles
    /\ archived = {}
    /\ audio = {}

NextBatch == OcrNext \/ ExternalDelete

SpecBatch == InitBatch /\ [][NextBatch]_vars

\* main over a directory that holds a.PDF and a.pdf, no process being killed
InitNames ==
    /\ script = "ocr_pipeline"
    /\ input_dir = {PdfA, PdfAUpper, [stem |-> "a", ext |-> ".txt"]}
    /\ pdf_files = <<>>
    /\ idx = 1
    /\ pc = "idle"
    /\ err = "none"
    /\ n_pages = 0
    /\ page_num = 0
    /\ attempt = 0
    /\ sleeps = <<>>
    /\ response = <<>>
    /\ text = <<>>
    /\ cache = NoFiles
    /\ final = NoFiles
    /\ calls = <<>>
    /\ start = NoSnapshot
    /\ fresh = {}
    /\ extDel = FALSE
    /\ nCrash = 0
    /\ nDelete = 0
    /\ raw_urls = ARGV
    /\ failed = {}
    /\ urls = <<>>
    /\ LOG_LEVEL = 0
    /\ transcripts = NoFiles
    /\ archived = {}
    /\ audio = {}

SpecNames == InitNames /\ [][NextBatch]_vars

\* transcribe.py, started any number of times, no process being killed; the
\* write of a transcript may fail
InitAudio ==
    /\ script = "transcribe"
    /\ input_dir = {}
    /\ pdf_files = <<>>
    /\ idx = 1
    /\ pc = "idle"
    /\ err = "none"
    /\ n_pages = 0
    /\ page_num = 0
    /\ attempt = 0
    /\ sleeps = <<>>
    /\ response = <<>>
    /\ text = <<>>
    /\ cache = NoFiles
    /\ final = NoFiles
    /\ calls = <<>>
    /\ start = NoSnapshot
    /\ fresh = {}
    /\ extDel = FALSE
    /\ nCrash = 0
    /\ nDelete = 0
    /\ raw_urls = ARGV
    /\ failed = {}
    /\ urls = <<>>
    /\ LOG_LEVEL = 0
    /\ transcripts = NoFiles
    /\ archived = {}
    /\ audio = {}

NextAudio == TrNext \/ TrOpenRaises \/ TrWriteRaises

SpecAudio == InitAudio /\ [][NextAudio]_vars

\* expand_urls on its own: main of transcribe.py up to line 383, for every
\* command line of at most MaxUrls URLs
InitExpand ==
    /\ script = "transcribe"
    /\ input_dir = {}
    /\ pdf_files = <<>>
    /\ idx = 1
    /\ pc = "idle"
    /\ err = "none"
    /\ n_pages = 0
    /\ page_num = 0
    /\ attempt = 0
    /\ sleeps = <<>>
    /\ response = <<>>
    /\ text = <<>>
    /\ cache = NoFiles
    /\ final = NoFiles
    /\ calls = <<>>
    /\ start = NoSnapshot
    /\ fresh = {}
    /\ extDel = FALSE
    /\ nCrash = 0
    /\ nDelete = 0
    /\ raw_urls \in UNION {[1..n -> RawUrls] : n \in 0..MaxUrls}
    /\ failed = {}
    /\ urls = <<>>
    /\ LOG_LEVEL = 0
    /\ transcripts = NoFiles
    /\ archived = {}
    /\ audio = {}

NextExpand == TrMain

SpecExpand == InitExpand /\ [][NextExpand]_vars

\* ocr_pipeline.py run to its end, any number of times, no process being
\* killed: the process always goes on to its next statement (time.sleep
\* returns, a call returns or raises), the archiver may or may not act
NextLive == OcrNext \/ ExternalDelete

SpecLive == Init /\ [][NextLive]_vars /\ WF_vars(OcrNext)

-----------------------------------------------------------------------------
(* Properties *)

AllCached(b, n) == \A p \in 1..n : exists(cache, page_file(b, p))

\* the sections of pages 1..n in ascending order, from the cache as it is
RECURSIVE Assembled(_, _)
Assembled(b, n) ==
    IF n = 0 THEN <<>>
    ELSE Assembled(b, n - 1) \o page_section(cache[page_file(b, n)], n)

Completed == pc = "pdf_done" /\ AllCached(base, n_pages)

\* C1: when process_pdf finds every page of the artifact cached (and no cache
\* file is removed while it runs) it never calls gemini_generate_with_retry,
\* and the final output it ends with equals the final output that the last
\* completed run left for the same cache.
C1_Idempotent ==
    (InProcessPdf /\ start.cached = 1..NumPages(pdf) /\ ~extDel) =>
        /\ calls = <<>>
        /\ (pc = "pdf_done" /\ start.fresh) => final[base] = start.final

C1_Witness ==
    /\ pc = "pdf_done"
    /\ start.cached = 1..n_pages
    /\ start.fresh
    /\ ~extDel
    /\ calls = <<>>
    /\ final[base] = start.final
    /\ final[base] # <<>>

RECURSIVE Ascending(_, _)
Ascending(lo, hi) == IF lo > hi THEN <<>> ELSE <<lo>> \o Ascending(lo + 1, hi)

\* C2 (as claimed): a run of process_pdf that follows an interrupted run and
\* finds exactly the pages 1..k cached ends having called recognition for
\* k+1..n, once each and in this order, with a final output that holds all n
\* sections in ascending order.
C2_Resumes ==
    (/\ pc \in {"pdf_done", "raised"}
     /\ err \in {"none", "EmptyOCR", "FileNotFound"}
     /\ nCrash > 0
     /\ ~extDel
     /\ \E k \in 0..n_pages : start.cached = 1..k) =>
        /\ pc = "pdf_done"
        /\ calls = Ascending(Cardinality(start.cached) + 1, n_pages)
        /\ final[base] = Assembled(base, n_pages)

\* C3: the final output of a completed process_pdf is the concatenation of
\* the sections of pages 1, 2, .., n in this order, each section made of the
\* cache file of its page, whatever the order in which the cache files were
\* created.
C3_Ordered ==
    Completed =>
        /\ exists(final, base)
        /\ final[base] = Assembled(base, n_pages)

\* page 1 was recognised in this run, the later pages were cached before it
C3_Witness ==
    /\ Completed
    /\ n_pages >= 2
    /\ calls = <<1>>
    /\ start.cached = 2..n_pages
    /\ final[base] = Assembled(base, n_pages)

RECURSIVE Sum(_)
Sum(s) == IF s = <<>> THEN 0 ELSE Head(s) + Sum(Tail(s))

\* C5: while the call raises, gemini_generate_with_retry goes on: after k
\* failures it is in attempt k+1, it has slept min(60, 5*i) seconds after the
\* failed attempt i (15 seconds in all for k = 2), and when attempt k+1
\* succeeds it returns the answer of that attempt, no exception having left
\* the loop.
C5_Backoff ==
    (pc \in {"gemini", "response"}) =>
        /\ attempt = Len(sleeps) + 1
        /\ \A i \in 1..Len(sleeps) :
               sleeps[i] = (IF 5 * i <= 60 THEN 5 * i ELSE 60)
        /\ Len(sleeps) = 2 => Sum(sleeps) = 15
        /\ err = "none"
        /\ pc = "response" => response \in Responses(page_num)

C5_Witness ==
    /\ pc = "response"
    /\ attempt = 14
    /\ Len(sleeps) = 13
    /\ sleeps[1] = 5
    /\ sleeps[2] = 10
    /\ sleeps[12] = 60
    /\ sleeps[13] = 60

\* C6 (as claimed): an empty or whitespace-only answer never ends the
\* processing of the page: the pipeline asks again.
C6_EmptyRetried == ~(pc = "raised" /\ err = "EmptyOCR")

C8_NoPartialOutput ==
    (pc = "raised" /\ err = "FileNotFound") =>
        /\ exists(final, base) = start.hasFinal
        /\ start.fresh => final[base] = start.final

\* C9 (as claimed): a PDF whose processing fails does not keep main from
\* processing the PDFs after it.
C9_BatchContinues ==
    (pc = "raised" /\ err \in {"Decode", "EmptyOCR", "FileNotFound"}) =>
        idx = Len(pdf_files)

\* C10: a process_pdf that made no recognition call, all pages being cached,
\* still ends with the final output rebuilt from the cache, also when the
\* final output was missing or cut short by a killed run.
C10_AlwaysRebuilt ==
    (Completed /\ calls = <<>>) =>
        /\ exists(final, base)
        /\ final[base] = Assembled(base, n_pages)
        /\ base \in fresh

C10_Witness ==
    /\ Completed
    /\ calls = <<>>
    /\ nCrash > 0
    /\ start.cached = 1..n_pages
    /\ ~start.fresh
    /\ final[base] = Assembled(base, n_pages)


\* a step of the process itself: no kill, no removal by the archiver
ProcessStep == nCrash' = nCrash /\ nDelete' = nDelete

\* C11: no step of process_pdf rewrites, truncates or deletes a page cache
\* file that exists, the file it has just created and is writing excepted:
\* the content of a cache file stays what the recognition that created it
\* wrote, and a cache file is created only for a page that had none.
C11_WriteOnce ==
    [][ProcessStep =>
          /\ \A k \in DOMAIN cache :
                \/ pc = "cache_write" /\ k = page_file(base, page_num)
                \/ k \in DOMAIN cache' /\ cache'[k] = cache[k]
          /\ \A k \in DOMAIN cache' \ DOMAIN cache :
                /\ k = page_file(base, page_num)
                /\ pc = "response"
                /\ calls[Len(calls)] = page_num]_vars

\* page 2 was recognised and cached while page 1 was found cached
C11_Witness ==
    /\ Completed
    /\ n_pages >= 2
    /\ start.cached = {1}
    /\ calls = <<2>>
    /\ ~extDel
    /\ nCrash = 0


\* C12 (as claimed): a run of transcribe.py makes no recognition call for a
\* video whose transcript an earlier run wrote: the transcript is found and
\* the video is skipped.
C12_SecondRunSkips ==
    script = "transcribe" =>
        \A i \in DOMAIN calls : calls[i] \notin archived


\* C13: for one URL, download_youtube_audio is called at most 3 times, each
\* failed call is followed by a sleep of 5 seconds, no call follows a call
\* that succeeded, and a URL whose 3 calls failed is left for the next one
\* with no recognition call made and no transcript written.
C13_BoundedDownload ==
    [][script = "transcribe" =>
          /\ pc = "t_download" =>
                /\ attempt \in 1..4
                /\ sleeps = [i \in 1..(attempt - 1) |-> 5]
                /\ calls' = calls
                /\ transcripts' = transcripts
                /\ \/ attempt <= 3 /\ pc' = "t_download" /\ attempt' = attempt + 1
                   \/ attempt <= 3 /\ pc' = "t_got" /\ attempt' = attempt
                   \/ attempt = 4 /\ pc' = "t_loop" /\ idx' = idx + 1
          /\ pc \in {"t_got", "t_response", "t_writing", "t_except"} =>
                /\ attempt \in 1..3
                /\ attempt' = attempt
                /\ sleeps' = sleeps
                /\ pc' # "t_download"]_vars

\* the first URL of the list was given up after three failed downloads
C13_Witness ==
    /\ script = "transcribe"
    /\ pc = "t_loop"
    /\ idx = 2
    /\ attempt = 4
    /\ sleeps = <<5, 5, 5>>
    /\ calls = <<>>
    /\ transcripts = NoFiles


\* C14: in a run of process_pdf during which no cache file of the artifact
\* is removed, while page j is being recognised or written every page
\* before j has a cache file, the pages recognised so far were recognised
\* one after the other in ascending order with j the last of them, and the
\* rebuild is entered only with a cache file for every page 1..n.
C14_Sequential ==
    (InProcessPdf /\ ~extDel) =>
        /\ \A i \in 1..Len(calls) : \A j \in 1..Len(calls) :
               i < j => calls[i] < calls[j]
        /\ pc \in {"gemini", "response", "cache_write"} =>
               /\ calls # <<>>
               /\ calls[Len(calls)] = page_num
               /\ page_num \in 1..n_pages
               /\ \A i \in 1..(page_num - 1) : exists(cache, page_file(base, i))
        /\ pc \in {"rebuild", "pdf_done"} => AllCached(base, n_pages)

\* page 2 is being recognised after page 1 was recognised and cached
C14_Witness ==
    /\ pc = "gemini"
    /\ ~extDel
    /\ page_num = 2
    /\ calls = <<1, 2>>
    /\ exists(cache, page_file(base, 1))
    /\ ~exists(cache, page_file(base, 2))


\* the texts process_pdf can have written in full for page p
CompleteTexts(p) == {strip(r) : r \in Responses(p)} \ {<<>>}

\* C15 (as claimed): also when processes were killed, a page cache file that
\* process_pdf finds and takes as a cache hit holds the complete non-empty
\* text of a recognition of that page, never an empty or partly written one.
C15_CacheHitComplete ==
    (pc = "page_loop" /\ page_num <= n_pages /\ IsCached(base, page_num)) =>
        cache[page_file(base, page_num)] \in CompleteTexts(page_num)


\* process_pdf has cached every page and written the final output
Done ==
    /\ pc = "pdf_done"
    /\ AllCached(base, n_pages)
    /\ final[base] = Assembled(base, n_pages)

\* C16: every call of process_pdf in which convert_from_path succeeds, every
\* recognition call raises finitely often and then returns a text that is
\* not empty, and no cache file of the artifact is removed meanwhile, comes
\* to the point where every page is cached and the final output is written;
\* it is not ended by an exception of a recognition call.
C16_EventuallyCompletes ==
    (pc = "convert") ~>
        \/ Done
        \/ pc = "raised" /\ err \in {"Decode", "EmptyOCR"}
        \/ extDel

\* both pages were recognised in this run and the final output is written
C16_Witness ==
    /\ Done
    /\ ~extDel
    /\ n_pages >= 2
    /\ calls = <<1, 2>>
    /\ err = "none"


\* C17 (as claimed): two different PDFs of the list of main have different
\* cache directories and final output paths (both are named by base_name),
\* so that a main that has processed the whole list leaves one final output
\* for each PDF of the list.
C17_DisjointKeys ==
    /\ \A i \in DOMAIN pdf_files : \A j \in DOMAIN pdf_files :
           i # j => base_name(pdf_files[i]) # base_name(pdf_files[j])
    /\ pc = "main_done" => Cardinality(DOMAIN final) = Len(pdf_files)


\* C18 (as claimed): no failure of one video ends main of transcribe.py, the
\* URLs are taken one by one in the order of the list, and a video whose
\* transcription or output write has failed has no transcript file.
C18_AudioBatchContinues ==
    script = "transcribe" =>
        /\ pc # "raised"
        /\ idx \in 1..(Len(urls) + 1)
        /\ pc = "t_except" => ~exists(transcripts, video_id)


\* process_pdf is in its first loop, before the final output is opened
InPageLoop ==
    \/ pc \in {"convert", "gemini", "response", "cache_write"}
    \/ pc = "page_loop" /\ page_num <= n_pages

\* C19: process_pdf raises out of the page loop only for an answer that is
\* empty after trimming, and the raise changes no file: page j has no cache
\* file, the other cache files and the final output are what they were, the
\* final output exists exactly if it did when process_pdf was entered; and
\* no step of the page loop before it has touched the final output.
C19_FailureFrame ==
    [][/\ (pc = "response" /\ pc' = "raised") =>
              /\ strip(response) = <<>>
              /\ err' = "EmptyOCR"
              /\ cache' = cache
              /\ final' = final
              /\ ~exists(cache', page_file(base, page_num))
              /\ exists(final', base) = start.hasFinal
       /\ (InPageLoop /\ ProcessStep) => final' = final]_vars

\* the answer for page 2 was empty; page 1 is cached and the final output of
\* an earlier run is in place
C19_Witness ==
    /\ pc = "raised"
    /\ err = "EmptyOCR"
    /\ page_num = 2
    /\ calls = <<2>>
    /\ DOMAIN cache = {page_file(base, 1)}
    /\ start.hasFinal
    /\ final[base] = page_section(cache[page_file(base, 1)], 1)
                        \o page_section(<<"x">>, 2)


\* what the i-th URL of the command line stands for: nothing when its
\* extraction raised, the videos of the playlist in playlist order (entries
\* without an id left out) when it names a playlist, itself otherwise
Contribution(i) ==
    LET u == normalize(raw_urls[i])
        info == extract_info(u)
        HasId(e) == e # ""
        ids == SelectSeq(info.entries, HasId)
    IN  IF u \in failed THEN <<>>
        ELSE IF info.type = "playlist"
             THEN [k \in 1..Len(ids) |-> watch_url(ids[k])]
             ELSE <<u>>

\* the places <<i, k>> at which x occurs in the expansion of the command line
Places(x) ==
    {ik \in UNION {{<<i, k>> : k \in 1..Len(Contribution(i))} :
                      i \in DOMAIN raw_urls} :
        Contribution(ik[1])[ik[2]] = x}

Before(a, b) == a[1] < b[1] \/ (a[1] = b[1] /\ a[2] < b[2])

FirstPlace(x) == CHOOSE a \in Places(x) : \A b \in Places(x) \ {a} : Before(a, b)

\* C20: the list expand_urls returns holds each URL once, holds exactly the
\* URLs the input URLs stand for, a URL whose extraction raised standing for
\* nothing, and orders them by their first occurrence in the expansion.
C20_ExpandUrls ==
    (script = "transcribe" /\ pc = "t_loop" /\ idx = 1) =>
        /\ \A i \in DOMAIN urls : \A j \in DOMAIN urls :
               i # j => urls[i] # urls[j]
        /\ Range(urls) =
               UNION {Range(Contribution(i)) : i \in DOMAIN raw_urls}
        /\ \A i \in DOMAIN urls : \A j \in DOMAIN urls :
               i < j => Before(FirstPlace(urls[i]), FirstPlace(urls[j]))

\* the first URL raised, the playlist after it was expanded, and the video
\* named again after the playlist is not listed a second time
C20_Witness ==
    /\ script = "transcribe"
    /\ pc = "t_loop"
    /\ idx = 1
    /\ raw_urls = <<"youtu.be/A", "watch?v=A&list=P", "watch?v=A">>
    /\ failed = {"youtu.be/A"}
    /\ urls = <<"watch?v=A", "watch?v=B">>


\* C21 (as claimed): LOG_LEVEL is at the start of every iteration of the
\* loop of main what it was at the start of the first one (0, the value
\* main reaches the loop with): every log_parent of an iteration is matched
\* by one log_done on every path, the paths on which get_video_info, the
\* download or the transcription raises included.
C21_LogBalanced ==
    (script = "transcribe" /\ pc = "t_loop" /\ idx <= Len(urls)) =>
        LOG_LEVEL = 0

====
